---- MODULE Spec2Model ----
(***************************************************************************)
(* Model of shared/src/interface_config.rs (innernet): the canonical       *)
(* InterfaceConfig record, the VanillaConfig record for plain WireGuard     *)
(* clients, the conversions between them, and the writers and readers of    *)
(* both file formats.  Text is modelled as sequences of one-character       *)
(* strings so that formatting, the sentinel regexes and the INI reader are  *)
(* computed character by character.                                         *)
(***************************************************************************)
EXTENDS Integers, Sequences, FiniteSets, TLC

\* ------------------------------------------------------------------ options
None == [some |-> FALSE]
Some(x) == [some |-> TRUE, val |-> x]

\* ------------------------------------------------------------------ text
NL == "\n"

Min(S) == CHOOSE x \in S : \A y \in S : x <= y

Max(S) == CHOOSE x \in S : \A y \in S : x >= y

\* s[from..to], empty when to < from
Slice(s, from, to) == [i \in 1..(to - from + 1) |-> s[from + i - 1]]

\* str::starts_with at offset i (1-based)
StartsWithAt(s, i, pat) ==
    /\ i + Len(pat) - 1 <= Len(s)
    /\ \A k \in 1..Len(pat) : s[i + k - 1] = pat[k]

\* positions of character c in s
Positions(s, c) == {i \in 1..Len(s) : s[i] = c}

\* the k-th smallest element of cuts (rank[p]: how many elements are below p),
\* with 0 and last as the outer borders
CutPos(cuts, rank, k, last) ==
    IF k = 0 THEN 0
    ELSE IF k = Cardinality(cuts) + 1 THEN last
    ELSE CHOOSE p \in cuts : rank[p] = k - 1

\* the pieces of s between the positions in cuts, in order
SplitAt(s, cuts, rank) ==
    [k \in 1..(Cardinality(cuts) + 1) |->
        Slice(s, CutPos(cuts, rank, k - 1, Len(s) + 1) + 1,
                 CutPos(cuts, rank, k, Len(s) + 1) - 1)]

\* how many elements of cuts lie below each of them
RankIn(cuts) == [p \in cuts |-> Cardinality({q \in cuts : q < p})]

\* str::split(c): the pieces of s between occurrences of c, in order
SplitOn(s, c) == SplitAt(s, Positions(s, c), RankIn(Positions(s, c)))

RECURSIVE Concat(_)
\* concatenation of a sequence of texts
Concat(ss) == IF ss = <<>> THEN <<>> ELSE Head(ss) \o Concat(Tail(ss))

\* char::is_whitespace, and \s of the regex crate: the characters with the
\* Unicode White_Space property that a string of this
\* module can hold: U+0009..U+000D, U+0020, U+0085, U+00A0, U+1680 (the others,
\* U+2000..U+200A, U+2028, U+2029, U+202F, U+205F and U+3000, cannot be written)
IsWhitespace(c) == c \in {"\t", "\n", "", "\f", "\r", " ", "", " ", " "}

\* s without the characters outside keep's span
TrimTo(s, keep) == IF keep = {} THEN <<>> ELSE Slice(s, Min(keep), Max(keep))

\* str::trim
Trim(s) == TrimTo(s, {i \in 1..Len(s) : ~IsWhitespace(s[i])})

\* str::replace(c, "")
RemoveChar(s, c) == SelectSeq(s, LAMBDA x : x # c)

\* ------------------------------------------------------------------ numbers
DigitChars == <<"0","1","2","3","4","5","6","7","8","9","a","b","c","d","e","f">>

UpperDigitChars == <<"0","1","2","3","4","5","6","7","8","9","A","B","C","D","E","F">>

\* the ASCII control characters U+0001..U+001F, each at the position of its code
ControlChars ==
    <<"", "", "", "", "", "", "", "", "\t", "\n", "", "\f", "\r", "", "", "",
      "", "", "", "", "", "", "", "", "", "", "", "", "", "", "">>

\* the ASCII control characters U+0001..U+001F as a set
ControlSet == {ControlChars[k] : k \in 1..31}

\* the code of an ASCII control character (U+0001..U+001F, U+007F), -1 for
\* any other character; no text of the model holds U+0000
ControlCode(c) ==
    IF c = "" THEN 127
    ELSE IF c \in ControlSet
    THEN CHOOSE k \in 1..31 : ControlChars[k] = c
    ELSE -1

\* char::to_digit(radix): the digit's value, or -1
DigitVal(c, radix) ==
    IF \E d \in 1..radix : DigitChars[d] = c \/ UpperDigitChars[d] = c
    THEN (CHOOSE d \in 1..radix : DigitChars[d] = c \/ UpperDigitChars[d] = c) - 1
    ELSE -1

RECURSIVE FmtRadix(_, _)
\* Display of an unsigned integer in the given radix (lower case)
FmtRadix(n, radix) ==
    IF n < radix THEN <<DigitChars[n + 1]>>
    ELSE FmtRadix(n \div radix, radix) \o <<DigitChars[(n % radix) + 1]>>

FmtDec(n) == FmtRadix(n, 10)

\* checked arithmetic: a value past cap stays past cap
Capped(v, cap) == IF v > cap THEN cap + 1 ELSE v

RECURSIVE DigitsValue(_, _, _)
\* value of a digit string, cap + 1 once it exceeds cap
DigitsValue(s, radix, cap) ==
    IF s = <<>> THEN 0
    ELSE Capped(DigitsValue(Slice(s, 1, Len(s) - 1), radix, cap) * radix
                    + DigitVal(s[Len(s)], radix), cap)

\* Some(v) unless v overflowed
Checked(v, cap) == IF v > cap THEN None ELSE Some(v)

\* core::net::parser read_number: all of s is digits of the radix, at most
\* maxDigits of them (0 = unlimited), no leading zero unless allowed, value <= cap
ReadNumber(s, radix, maxDigits, allowZeroPrefix, cap) ==
    IF \/ s = <<>>
       \/ \E i \in 1..Len(s) : DigitVal(s[i], radix) < 0
       \/ (maxDigits > 0 /\ Len(s) > maxDigits)
       \/ (~allowZeroPrefix /\ Len(s) > 1 /\ s[1] = "0")
    THEN None
    ELSE Checked(DigitsValue(s, radix, cap), cap)

U8Max == 255

U16Max == 65535

\* a u32 as its two 16-bit halves: the value is hi * 65536 + lo
U32(hi, lo) == [hi |-> hi, lo |-> lo]

RECURSIVE FmtU32(_, _)
\* Display of a u32: decimal digits, by long division of the two halves by 10
FmtU32(hi, lo) ==
    IF hi = 0 THEN FmtDec(lo)
    ELSE FmtU32(hi \div 10, ((hi % 10) * (U16Max + 1) + lo) \div 10)
             \o <<DigitChars[(((hi % 10) * (U16Max + 1) + lo) % 10) + 1]>>

RECURSIVE U32Digits(_, _, _, _)
\* checked_mul(10) and checked_add(digit) over the digits of s from position i
U32Digits(s, i, hi, lo) ==
    IF i > Len(s) THEN Some(U32(hi, lo))
    ELSE IF hi * 10 + (lo * 10 + DigitVal(s[i], 10)) \div (U16Max + 1) > U16Max THEN None
    ELSE U32Digits(s, i + 1,
                   hi * 10 + (lo * 10 + DigitVal(s[i], 10)) \div (U16Max + 1),
                   (lo * 10 + DigitVal(s[i], 10)) % (U16Max + 1))

\* read_number(10, None, true) for a u32: decimal digits only, no overflow
ReadU32(s) ==
    IF s = <<>> \/ \E i \in 1..Len(s) : DigitVal(s[i], 10) < 0 THEN None
    ELSE U32Digits(s, 1, 0, 0)

\* <u16 as FromStr>::from_str: optional '+', then decimal digits, no overflow
ParseU16(s) ==
    ReadNumber(IF s # <<>> /\ s[1] = "+" THEN Tail(s) ELSE s, 10, 0, TRUE, U16Max)

\* ------------------------------------------------------------------ addresses
V4(a, b, c, d) == [v |-> 4, o |-> <<a, b, c, d>>]

V6(segs) == [v |-> 6, o |-> segs]

\* <Ipv4Addr as Display>
FmtIpv4(o) ==
    FmtDec(o[1]) \o <<".">> \o FmtDec(o[2]) \o <<".">> \o FmtDec(o[3]) \o <<".">> \o FmtDec(o[4])

RECURSIVE FmtSegs(_)
\* fmt_subslice: hex groups joined by ':'
FmtSegs(segs) ==
    IF segs = <<>> THEN <<>>
    ELSE IF Len(segs) = 1 THEN FmtRadix(segs[1], 16)
    ELSE FmtRadix(segs[1], 16) \o <<":">> \o FmtSegs(Tail(segs))

\* length of the run of zero segments that starts at i
ZeroRun(segs, i) ==
    IF \A j \in i..Len(segs) : segs[j] = 0 THEN Len(segs) - i + 1
    ELSE Min({j \in i..Len(segs) : segs[j] # 0}) - i

\* the groups with the zero run of length `longest` at `start` written "::"
FmtCompressed(segs, longest, start) ==
    IF longest > 1
    THEN FmtSegs(Slice(segs, 1, start - 1)) \o <<":", ":">>
             \o FmtSegs(Slice(segs, start + longest, 8))
    ELSE FmtSegs(segs)

\* the first longest run of zero groups is the one compressed
FmtLongestRun(segs, longest) ==
    FmtCompressed(segs, longest, Min({i \in 1..8 : ZeroRun(segs, i) = longest}))

\* <Ipv6Addr as Display>: IPv4-mapped form, else the first longest run of
\* two or more zero groups is written "::"
FmtIpv6(segs) ==
    IF (\A i \in 1..5 : segs[i] = 0) /\ segs[6] = U16Max
    THEN <<":",":","f","f","f","f",":">> \o FmtIpv4(<<segs[7] \div 256, segs[7] % 256, segs[8] \div 256, segs[8] % 256>>)
    ELSE FmtLongestRun(segs, Max({ZeroRun(segs, i) : i \in 1..8}))

\* <IpAddr as Display>
FmtIp(ip) == IF ip.v = 4 THEN FmtIpv4(ip.o) ELSE FmtIpv6(ip.o)

\* four parsed octets make an address
Ipv4OfNums(nums) ==
    IF \A k \in 1..4 : nums[k].some
    THEN Some(V4(nums[1].val, nums[2].val, nums[3].val, nums[4].val))
    ELSE None

\* octets: decimal, 1..3 digits, no leading zero
Ipv4OfParts(parts) ==
    IF Len(parts) = 4
    THEN Ipv4OfNums([k \in 1..4 |-> ReadNumber(parts[k], 10, 3, FALSE, U8Max)])
    ELSE None

\* Ipv4Addr::from_str
ParseIpv4(s) == Ipv4OfParts(SplitOn(s, "."))

\* the groups read: all hex, or hex with a dotted quad as the last two groups
GroupsOf(n, hex, v4) ==
    IF v4.some /\ \A k \in 1..(n - 1) : hex[k].some
    THEN Some([k \in 1..(n - 1) |-> hex[k].val]
              \o <<v4.val.o[1] * 256 + v4.val.o[2], v4.val.o[3] * 256 + v4.val.o[4]>>)
    ELSE IF \A k \in 1..n : hex[k].some
    THEN Some([k \in 1..n |-> hex[k].val])
    ELSE None

\* groups are 1..4 hex digits
GroupsOfParts(parts) ==
    GroupsOf(Len(parts),
             [k \in 1..Len(parts) |-> ReadNumber(parts[k], 16, 4, TRUE, U16Max)],
             ParseIpv4(parts[Len(parts)]))

\* read_groups: colon-separated groups; None when a group is malformed
ReadGroups(s) == IF s = <<>> THEN Some(<<>>) ELSE GroupsOfParts(SplitOn(s, ":"))

\* an address without "::" has exactly eight groups
FullGroups(g) == IF g.some /\ Len(g.val) = 8 THEN Some(V6(g.val)) ELSE None

\* head :: tail, the gap filled with zero groups; no dotted quad before "::"
JoinGroups(head, tail, headDotted) ==
    IF head.some /\ tail.some /\ ~headDotted /\ Len(head.val) + Len(tail.val) <= 7
    THEN Some(V6(head.val \o [k \in 1..(8 - Len(head.val) - Len(tail.val)) |-> 0] \o tail.val))
    ELSE None

\* the address around the "::" at position `at`
Ipv6Around(s, at) ==
    JoinGroups(ReadGroups(Slice(s, 1, at - 1)),
               ReadGroups(Slice(s, at + 2, Len(s))),
               \E i \in 1..(at - 1) : s[i] = ".")

\* Ipv6Addr::from_str: eight groups, or fewer around the first "::"
ParseIpv6(s) ==
    IF \E i \in 1..(Len(s) - 1) : s[i] = ":" /\ s[i + 1] = ":"
    THEN Ipv6Around(s, Min({i \in 1..(Len(s) - 1) : s[i] = ":" /\ s[i + 1] = ":"}))
    ELSE FullGroups(ReadGroups(s))

\* SocketAddr values: flowinfo and scope_id exist on SocketAddrV6 only and are
\* 0 for IPv4
SockAddr(ip, port, flowinfo, scope_id) ==
    [ip |-> ip, port |-> port, flowinfo |-> flowinfo, scope_id |-> scope_id]

\* <SocketAddr as Display>: "a.b.c.d:port", "[v6]:port", or "[v6%scope]:port"
\* when scope_id is not 0; flowinfo is not printed
FmtSocketAddr(a) ==
    IF a.ip.v = 4 THEN FmtIpv4(a.ip.o) \o <<":">> \o FmtDec(a.port)
    ELSE IF a.scope_id = U32(0, 0)
    THEN <<"[">> \o FmtIpv6(a.ip.o) \o <<"]", ":">> \o FmtDec(a.port)
    ELSE <<"[">> \o FmtIpv6(a.ip.o) \o <<"%">> \o FmtU32(a.scope_id.hi, a.scope_id.lo)
             \o <<"]", ":">> \o FmtDec(a.port)

\* an IPv4 address and a port, both parsed
SockAddrOf(ip, port) ==
    IF ip.some /\ port.some THEN Some(SockAddr(ip.val, port.val, 0, U32(0, 0))) ELSE None

\* an IPv6 address, a scope id and a port, all parsed; a parsed address has flowinfo 0
SockAddrV6Of(ip, scope_id, port) ==
    IF ip.some /\ scope_id.some /\ port.some
    THEN Some(SockAddr(ip.val, port.val, 0, scope_id.val))
    ELSE None

\* the text between the brackets: an address, or address '%' scope id
ScopedAt(inner, pcts, port) ==
    IF pcts = {} THEN SockAddrV6Of(ParseIpv6(inner), Some(U32(0, 0)), port)
    ELSE SockAddrV6Of(ParseIpv6(Slice(inner, 1, Min(pcts) - 1)),
                      ReadU32(Slice(inner, Min(pcts) + 1, Len(inner))),
                      port)

\* "[v6]:port" or "[v6%scope]:port" with the ']' at position c
SockAddrV6At(s, c) ==
    ScopedAt(Slice(s, 2, c - 1), Positions(Slice(s, 2, c - 1), "%"),
             IF c + 1 <= Len(s) /\ s[c + 1] = ":"
             THEN ReadNumber(Slice(s, c + 2, Len(s)), 10, 0, TRUE, U16Max)
             ELSE None)

\* "a.b.c.d:port" with the ':' at position c
SockAddrV4At(s, c) ==
    SockAddrOf(ParseIpv4(Slice(s, 1, c - 1)),
               ReadNumber(Slice(s, c + 1, Len(s)), 10, 0, TRUE, U16Max))

\* SocketAddr::from_str
ParseSocketAddr(s) ==
    IF s # <<>> /\ s[1] = "["
    THEN IF Positions(s, "]") = {} THEN None ELSE SockAddrV6At(s, Min(Positions(s, "]")))
    ELSE IF Positions(s, ":") = {} THEN None ELSE SockAddrV4At(s, Min(Positions(s, ":")))

\* IpNet values: an address and a prefix length
IpNet(ip, prefix) == [addr |-> ip, prefix_len |-> prefix]

\* <IpNet as Display>
FmtIpNet(n) == FmtIp(n.addr) \o <<"/">> \o FmtDec(n.prefix_len)

V4Bits == 32

V6Bits == 128

\* an address of either family with a prefix length within its width
IpNetOf(a4, len4, a6, len6) ==
    IF a4.some /\ len4.some THEN Some(IpNet(a4.val, len4.val))
    ELSE IF a6.some /\ len6.some THEN Some(IpNet(a6.val, len6.val))
    ELSE None

\* "addr/len" with the '/' at position c
IpNetAt(s, c) ==
    IpNetOf(ParseIpv4(Slice(s, 1, c - 1)),
            ReadNumber(Slice(s, c + 1, Len(s)), 10, 2, TRUE, V4Bits),
            ParseIpv6(Slice(s, 1, c - 1)),
            ReadNumber(Slice(s, c + 1, Len(s)), 10, 3, TRUE, V6Bits))

\* IpNet::from_str
ParseIpNet(s) == IF Positions(s, "/") = {} THEN None ELSE IpNetAt(s, Min(Positions(s, "/")))

\* ------------------------------------------------------------------ results
Ok(x) == [ok |-> TRUE, val |-> x]
Err(kind) == [ok |-> FALSE, err |-> kind]

\* ------------------------------------------------------------------ data model
\* crate::Endpoint: a host (IP or name, kept as text) and a port
Endpoint(host, port) == [host |-> host, port |-> port]

\* <Endpoint as Display>: "host:port"
FmtEndpoint(e) == e.host \o <<":">> \o FmtDec(e.port)

\* a host and a parsed port
EndpointOf(host, port) ==
    IF host # <<>> /\ port.some THEN Some(Endpoint(host, port.val)) ELSE None

\* "host:port" with the last ':' at position c
EndpointAt(s, c) == EndpointOf(Slice(s, 1, c - 1), ParseU16(Slice(s, c + 1, Len(s))))

\* Endpoint::from_str: split at the last ':', the port is a u16, the host is not empty
ParseEndpoint(s) ==
    IF Positions(s, ":") = {} THEN None ELSE EndpointAt(s, Max(Positions(s, ":")))

PERSISTENT_KEEPALIVE_INTERVAL_SECS == 25

InterfaceInfo(network_name, address, private_key, listen_port) ==
    [network_name |-> network_name, address |-> address,
     private_key |-> private_key, listen_port |-> listen_port]

ServerInfo(public_key, external_endpoint, internal_endpoint) ==
    [public_key |-> public_key, external_endpoint |-> external_endpoint,
     internal_endpoint |-> internal_endpoint]

InterfaceConfig(interface, server) == [interface |-> interface, server |-> server]

VanillaInterface(address, private_key, listen_port, network_name) ==
    [address |-> address, private_key |-> private_key,
     listen_port |-> listen_port, network_name |-> network_name]

VanillaPeer(public_key, endpoint, allowed_ips, persistent_keepalive, internal_endpoint) ==
    [public_key |-> public_key, endpoint |-> endpoint, allowed_ips |-> allowed_ips,
     persistent_keepalive |-> persistent_keepalive, internal_endpoint |-> internal_endpoint]

VanillaConfig(interface, peer) == [interface |-> interface, peer |-> peer]

\* ------------------------------------------------------------------ conversions
\* impl From<&InterfaceInfo> for VanillaInterface
VanillaInterfaceFrom(interface) ==
    VanillaInterface(interface.address,
                     interface.private_key,
                     IF interface.listen_port.some THEN interface.listen_port.val ELSE 0,
                     Some(interface.network_name))

\* format!("{}/32", server.internal_endpoint.ip())
AllowedIpsOf(internal_endpoint) == FmtIp(internal_endpoint.ip) \o <<"/","3","2">>

\* impl From<&ServerInfo> for VanillaPeer
VanillaPeerFrom(server) ==
    VanillaPeer(server.public_key,
                server.external_endpoint,
                AllowedIpsOf(server.internal_endpoint),
                PERSISTENT_KEEPALIVE_INTERVAL_SECS,
                Some(server.internal_endpoint))

\* impl From<InterfaceConfig> for VanillaConfig
VanillaConfigFrom(config) ==
    VanillaConfig(VanillaInterfaceFrom(config.interface), VanillaPeerFrom(config.server))

\* a conversion that keeps the port as it is, 0 included
ListenPortKept(n) == Some(n)

\* match self.interface.listen_port { 0 => None, n => Some(n) }
ListenPortOf(n) == IF n = 0 THEN None ELSE Some(n)

\* a conversion that asks for network_name only
to_interface_config_name_only(self) ==
    IF ~self.interface.network_name.some
    THEN Err("network_name and internal_endpoint must be passed")
    ELSE Ok(InterfaceConfig(
                InterfaceInfo(self.interface.network_name.val,
                              self.interface.address,
                              self.interface.private_key,
                              IF self.interface.listen_port = 0 THEN None
                              ELSE Some(self.interface.listen_port)),
                ServerInfo(self.peer.public_key,
                           self.peer.endpoint,
                           self.peer.internal_endpoint)))

\* VanillaConfig::to_interface_config
to_interface_config(self) ==
    IF ~self.interface.network_name.some \/ ~self.peer.internal_endpoint.some
    THEN Err("network_name and internal_endpoint must be passed")
    ELSE Ok(InterfaceConfig(
                InterfaceInfo(self.interface.network_name.val,
                              self.interface.address,
                              self.interface.private_key,
                              ListenPortOf(self.interface.listen_port)),
                ServerInfo(self.peer.public_key,
                           self.peer.endpoint,
                           self.peer.internal_endpoint.val)))

\* VanillaConfig::set_network_name
set_network_name(self, network_name) ==
    [self EXCEPT !.interface.network_name = Some(network_name)]

\* VanillaConfig::set_internal_endpoint
set_internal_endpoint(self, internal_endpoint) ==
    [self EXCEPT !.peer.internal_endpoint = Some(internal_endpoint)]

\* ------------------------------------------------------------------ serialization
\* one character of a TOML basic string: the short escapes, \uXXXX for the
\* other control characters; a multi-line string keeps its line breaks
TomlEscape(c, ml) ==
    IF ControlCode(c) = 8 THEN <<"\\", "b">>
    ELSE IF c = "\t" THEN <<"\\", "t">>
    ELSE IF c = "\n" THEN (IF ml THEN <<c>> ELSE <<"\\", "n">>)
    ELSE IF c = "\f" THEN <<"\\", "f">>
    ELSE IF c = "\r" THEN <<"\\", "r">>
    ELSE IF c = "\\" THEN <<"\\", "\\">>
    ELSE IF ControlCode(c) >= 0
    THEN <<"\\", "u", "0", "0", UpperDigitChars[(ControlCode(c) \div 16) + 1],
           UpperDigitChars[(ControlCode(c) % 16) + 1]>>
    ELSE <<c>>

RECURSIVE TomlEscaped(_, _, _, _, _)
\* s from position i as the content of a basic string: a '"' is escaped once
\* more than maxRun of them stand in a row (run: how many stand before i)
TomlEscaped(s, i, run, maxRun, ml) ==
    IF i > Len(s) THEN <<>>
    ELSE IF s[i] = "\""
    THEN IF run + 1 > maxRun
         THEN <<"\\", "\"">> \o TomlEscaped(s, i + 1, 0, maxRun, ml)
         ELSE <<"\"">> \o TomlEscaped(s, i + 1, run + 1, maxRun, ml)
    ELSE TomlEscape(s[i], ml) \o TomlEscaped(s, i + 1, 0, maxRun, ml)

\* the longest run of character c in s
MaxSeq(s, c) ==
    IF Positions(s, c) = {} THEN 0
    ELSE Max({n \in 1..Len(s) :
                \E i \in 1..(Len(s) - n + 1) : \A k \in i..(i + n - 1) : s[k] = c})

\* s holds a control character other than tab and line feed
HasEscapeCodes(s) ==
    \E i \in 1..Len(s) : ControlCode(s[i]) >= 0 /\ s[i] # "\t" /\ s[i] # "\n"

\* the string style toml::to_string picks, in its order of preference: a basic
\* string that needs no escape, a literal string, a multi-line basic string
\* that needs no escape, a multi-line literal string, and else a basic string
\* with escapes (multi-line when s holds a line break)
TomlStyle(s) ==
    IF ~HasEscapeCodes(s) /\ Positions(s, "\\") = {} /\ MaxSeq(s, "\"") = 0 /\ Positions(s, NL) = {}
    THEN "basic"
    ELSE IF ~HasEscapeCodes(s) /\ MaxSeq(s, "'") = 0 /\ Positions(s, NL) = {}
    THEN "literal"
    ELSE IF ~HasEscapeCodes(s) /\ Positions(s, "\\") = {} /\ MaxSeq(s, "\"") <= 2
    THEN "ml-basic"
    ELSE IF ~HasEscapeCodes(s) /\ MaxSeq(s, "'") <= 2
    THEN "ml-literal"
    ELSE IF Positions(s, NL) # {} THEN "ml-basic"
    ELSE "basic"

\* s written in the given style; a multi-line string that holds a line break
\* starts on a line of its own
TomlStyled(s, style) ==
    IF style = "basic" THEN <<"\"">> \o TomlEscaped(s, 1, 0, 0, FALSE) \o <<"\"">>
    ELSE IF style = "literal" THEN <<"'">> \o s \o <<"'">>
    ELSE IF style = "ml-basic"
    THEN <<"\"", "\"", "\"">> \o (IF Positions(s, NL) # {} THEN <<NL>> ELSE <<>>) \o TomlEscaped(s, 1, 0, 2, TRUE)
             \o <<"\"", "\"", "\"">>
    ELSE <<"'", "'", "'">> \o (IF Positions(s, NL) # {} THEN <<NL>> ELSE <<>>) \o s \o <<"'", "'", "'">>

\* a string value as toml::to_string writes it
TomlString(s) == TomlStyled(s, TomlStyle(s))

\* "key = value\n"
TomlLine(key, value) == key \o <<" ","="," ">> \o value \o <<NL>>

\* toml::to_string(&InterfaceConfig): kebab-case keys, listen-port omitted when None
TomlInterfaceConfig(c) ==
    <<"[","i","n","t","e","r","f","a","c","e","]","\n">>
    \o TomlLine(<<"n","e","t","w","o","r","k","-","n","a","m","e">>, TomlString(c.interface.network_name))
    \o TomlLine(<<"a","d","d","r","e","s","s">>, TomlString(FmtIpNet(c.interface.address)))
    \o TomlLine(<<"p","r","i","v","a","t","e","-","k","e","y">>, TomlString(c.interface.private_key))
    \o (IF c.interface.listen_port.some
        THEN TomlLine(<<"l","i","s","t","e","n","-","p","o","r","t">>, FmtDec(c.interface.listen_port.val))
        ELSE <<>>)
    \o <<"\n","[","s","e","r","v","e","r","]","\n">>
    \o TomlLine(<<"p","u","b","l","i","c","-","k","e","y">>, TomlString(c.server.public_key))
    \o TomlLine(<<"e","x","t","e","r","n","a","l","-","e","n","d","p","o","i","n","t">>, TomlString(FmtEndpoint(c.server.external_endpoint)))
    \o TomlLine(<<"i","n","t","e","r","n","a","l","-","e","n","d","p","o","i","n","t">>, TomlString(FmtSocketAddr(c.server.internal_endpoint)))

\* toml::to_string(&VanillaConfig): PascalCase keys, the serde(skip) fields left out
TomlVanillaConfig(v) ==
    <<"[","I","n","t","e","r","f","a","c","e","]","\n">>
    \o TomlLine(<<"A","d","d","r","e","s","s">>, TomlString(FmtIpNet(v.interface.address)))
    \o TomlLine(<<"P","r","i","v","a","t","e","K","e","y">>, TomlString(v.interface.private_key))
    \o TomlLine(<<"L","i","s","t","e","n","P","o","r","t">>, FmtDec(v.interface.listen_port))
    \o <<"\n","[","P","e","e","r","]","\n">>
    \o TomlLine(<<"P","u","b","l","i","c","K","e","y">>, TomlString(v.peer.public_key))
    \o TomlLine(<<"E","n","d","p","o","i","n","t">>, TomlString(FmtEndpoint(v.peer.endpoint)))
    \o TomlLine(<<"A","l","l","o","w","e","d","I","p","s">>, TomlString(v.peer.allowed_ips))
    \o TomlLine(<<"P","e","r","s","i","s","t","e","n","t","K","e","e","p","a","l","i","v","e">>, FmtDec(v.peer.persistent_keepalive))

\* the comment block InterfaceConfig::write_to writes when `comments` is set
INVITATION_HEADER == 
    <<"#"," ","T","h","i","s"," ","i","s"," ","a","n"," ","i","n","v","i","t","a","t","i",
      "o","n"," ","f","i","l","e"," ","t","o"," ","a","n"," ","i","n","n","e","r","n","e",
      "t"," ","n","e","t","w","o","r","k",".","\n","#","\n","#"," ","T","o"," ","j","o","i",
      "n",","," ","y","o","u"," ","m","u","s","t"," ","i","n","s","t","a","l","l"," ","i",
      "n","n","e","r","n","e","t",".","\n","#"," ","S","e","e"," ","h","t","t","p","s",":",
      "/","/","g","i","t","h","u","b",".","c","o","m","/","t","o","n","a","r","i","n","o",
      "/","i","n","n","e","r","n","e","t"," ","f","o","r"," ","i","n","s","t","r","u","c",
      "t","i","o","n","s",".","\n","#","\n","#"," ","I","f"," ","y","o","u"," ","h","a","v",
      "e"," ","i","n","n","e","r","n","e","t",","," ","j","u","s","t"," ","r","u","n",":",
      "\n","#","\n","#"," "," "," ","i","n","n","e","r","n","e","t"," ","i","n","s","t","a",
      "l","l"," ","<","t","h","i","s"," ","f","i","l","e",">","\n","#","\n","#"," ","D","o",
      "n","'","t"," ","e","d","i","t"," ","t","h","e"," ","c","o","n","t","e","n","t","s",
      " ","b","e","l","o","w"," ","u","n","l","e","s","s"," ","y","o","u"," ","l","o","v",
      "e"," ","c","h","a","o","s"," ","a","n","d"," ","d","y","s","f","u","n","c","t","i",
      "o","n",".","\n">>

\* the comment block VanillaConfig::write_to writes
EXPORT_HEADER == 
    <<"#"," ","T","h","i","s"," ","i","s"," ","a","n"," ","e","x","p","o","r","t","e","d",
      " ","i","n","n","e","r","n","e","t"," ","p","e","e","r"," ","f","o","r"," ","W","i",
      "r","e","G","u","a","r","d"," ","c","l","i","e","n","t","s",".","\n","#","\n","#"," ",
      "A","n","y"," ","c","h","a","n","g","e","s"," ","t","o"," ","t","h","e"," ","p","e",
      "e","r"," ","c","o","n","f","i","g","u","r","a","t","i","o","n"," ","s","h","o","u",
      "l","d"," ","b","e"," ","m","a","d","e"," ","u","s","i","n","g"," ","i","n","n","e",
      "r","n","e","t","\n","#"," ","a","n","d"," ","t","h","e","n"," ","t","h","i","s"," ",
      "f","i","l","e"," ","i","m","p","o","r","t","e","d"," ","a","n","d"," ","r","e","-",
      "e","x","p","o","r","t","e","d",".","\n","#","\n","#"," ","D","o","n","'","t"," ","e",
      "d","i","t"," ","t","h","e"," ","c","o","n","t","e","n","t","s"," ","b","e","l","o",
      "w"," ","u","n","l","e","s","s"," ","y","o","u"," ","l","o","v","e"," ","c","h","a",
      "o","s"," ","a","n","d"," ","d","y","s","f","u","n","c","t","i","o","n",".","\n">>

\* format_args!("# !network_name,{}\n", name)
NetworkNameLine(name) == <<"#"," ","!","n","e","t","w","o","r","k","_","n","a","m","e",",">> \o name \o <<NL>>

\* format_args!("# !internal_endpoint,{}\n", endpoint)
InternalEndpointLine(endpoint) == <<"#"," ","!","i","n","t","e","r","n","a","l","_","e","n","d","p","o","i","n","t",",">> \o FmtSocketAddr(endpoint) \o <<NL>>

\* toml::to_string(self) with every '"' removed
VanillaBody(v) == RemoveChar(TomlVanillaConfig(v), "\"")

\* ------------------------------------------------------------------ files
\* A path holds no file, or a file with its content and the permission mode
\* last applied to it (None: the mode the open gave it).
NoFile == [exists |-> FALSE]
File(content, mode) == [exists |-> TRUE, content |-> content, mode |-> mode]

\* An open file: the file and the cursor of the handle (bytes before it).
Handle(content, mode, pos) ==
    [exists |-> TRUE, content |-> content, mode |-> mode, pos |-> pos]

\* What one call did to its target, in order: "open", "chmod" (arg: whether
\* it went through), "write" (arg: the bytes that reached the file).
Event(kind, arg) == [kind |-> kind, arg |-> arg]

\* outcome of a writer: its result, the file it leaves and its effects in order
Outcome(res, file, trace) == [res |-> res, file |-> file, trace |-> trace]

\* an open whose create_new acts as create: an existing file is opened as it is
OpenOptionsOpenShared(file, create, truncate, create_new) ==
    IF file.exists
    THEN Ok(Handle(IF truncate THEN <<>> ELSE file.content, file.mode, 0))
    ELSE IF create \/ create_new THEN Ok(Handle(<<>>, None, 0))
    ELSE Err("NotFound")

\* OpenOptions::new().create(c).truncate(t).create_new(n).write(true).open(path):
\* create_new fails on an existing file and otherwise creates an empty one;
\* create + truncate empties an existing file or creates an empty one; the
\* cursor of the new handle is at the start of the file.
OpenOptionsOpen(file, create, truncate, create_new) ==
    IF create_new
    THEN IF file.exists THEN Err("AlreadyExists") ELSE Ok(Handle(<<>>, None, 0))
    ELSE IF file.exists
    THEN Ok(Handle(IF truncate THEN <<>> ELSE file.content, file.mode, 0))
    ELSE IF create THEN Ok(Handle(<<>>, None, 0)) ELSE Err("NotFound")

\* crate::chmod(file, mode): sets the permission bits; the call can fail
chmod(file, mode, chmodOk) ==
    IF chmodOk THEN Ok([file EXCEPT !.mode = Some(mode)]) ELSE Err("PermissionDenied")

\* File::write_all(bytes)? (and write_fmt, writedoc!) after the effects w:
\* nothing when an earlier step returned its error; else the bytes go over
\* the file at the cursor. A file may grow to `limit` bytes (None: no limit):
\* the bytes that fit are written, and when some do not fit the call fails
\* with the rest unwritten. (w and bytes are worked out once.)
WriteAll(w, bytes, limit) ==
    CHOOSE r \in
        {IF ~o.res.ok THEN o
         ELSE LET n == IF limit.some
                       THEN Min({Len(bs), Max({0, limit.val - o.file.pos})})
                       ELSE Len(bs)
              IN  Outcome(IF n = Len(bs) THEN Ok("unit") ELSE Err("FileTooLarge"),
                          [o.file EXCEPT
                              !.content = Slice(@, 1, o.file.pos) \o Slice(bs, 1, n)
                                              \o Slice(@, o.file.pos + n + 1, Len(@)),
                              !.pos = @ + n],
                          o.trace \o <<Event("write", Slice(bs, 1, n))>>) :
            o \in {w}, bs \in {bytes}} : TRUE

\* the header, when asked for, and then the serialized record
WriteInvitation(file, trace, comments, body, limit) ==
    IF comments
    THEN WriteAll(WriteAll(Outcome(Ok("unit"), file, trace), INVITATION_HEADER, limit),
                  body, limit)
    ELSE WriteAll(Outcome(Ok("unit"), file, trace), body, limit)

\* chmod(target_file, val)?  and then the content
InvitationAfterChmod(moded, target_file, comments, body, limit) ==
    IF ~moded.ok THEN Outcome(Err(moded.err), target_file, <<Event("chmod", FALSE)>>)
    ELSE WriteInvitation(moded.val, <<Event("chmod", TRUE)>>, comments, body, limit)

\* the mode applied to a file whose content is already written
ModeAfterContent(w, moded) ==
    IF ~w.res.ok THEN w
    ELSE IF moded.ok
    THEN Outcome(w.res, moded.val, w.trace \o <<Event("chmod", TRUE)>>)
    ELSE Outcome(Err(moded.err), w.file, w.trace \o <<Event("chmod", FALSE)>>)

\* the mode applied to whatever the writes left
ModeOn(w, mode, chmodOk) == ModeAfterContent(w, chmod(w.file, mode, chmodOk))

\* a write_to that writes the content first and sets the mode last
InterfaceConfig_write_to_content_first(self, target_file, comments, mode, chmodOk, limit) ==
    IF mode.some
    THEN ModeOn(WriteInvitation(target_file, <<>>, comments, TomlInterfaceConfig(self), limit),
                mode.val, chmodOk)
    ELSE WriteInvitation(target_file, <<>>, comments, TomlInterfaceConfig(self), limit)

\* InterfaceConfig::write_to on the handle target_file
InterfaceConfig_write_to(self, target_file, comments, mode, chmodOk, limit) ==
    IF mode.some
    THEN InvitationAfterChmod(chmod(target_file, mode.val, chmodOk), target_file,
                              comments, TomlInterfaceConfig(self), limit)
    ELSE WriteInvitation(target_file, <<>>, comments, TomlInterfaceConfig(self), limit)

\* the effects of write_to after a successful open (w is worked out once)
Opened(w) ==
    CHOOSE r \in {Outcome(o.res, o.file, <<Event("open", TRUE)>> \o o.trace) : o \in {w}} : TRUE

\* InterfaceConfig::write_to_path: the open with create_new and
\* with_path(path)?, then write_to on the new handle
InterfaceConfig_write_to_path(self, file, comments, mode, chmodOk, limit) ==
    IF ~OpenOptionsOpen(file, FALSE, FALSE, TRUE).ok
    THEN Outcome(Err(OpenOptionsOpen(file, FALSE, FALSE, TRUE).err), file, <<>>)
    ELSE Opened(InterfaceConfig_write_to(self, OpenOptionsOpen(file, FALSE, FALSE, TRUE).val,
                                         comments, mode, chmodOk, limit))

RECURSIVE file_name(_, _)
\* Path::file_name of path[1..e]: where the last component starts and ends,
\* when it is a normal one; <<0, 0>> when the path ends in "..", is "." or
\* the root, or is empty. A trailing '/' and a "." that does not start the
\* path are no components.
file_name(path, e) ==
    IF e = 0 THEN <<0, 0>>
    ELSE IF path[e] = "/" THEN file_name(path, e - 1)
    ELSE LET start == Max({i \in 1..e : path[i] = "/"} \cup {0}) + 1
         IN  IF Slice(path, start, e) = <<".", ".">> THEN <<0, 0>>
             ELSE IF Slice(path, start, e) = <<".">>
             THEN (IF start = 1 THEN <<0, 0>> ELSE file_name(path, start - 1))
             ELSE <<start, e>>

\* rsplit_file_at_dot on the file name path[fn[1]..fn[2]]: the position in
\* the path of the '.' between stem and extension; 0 when the name is "..",
\* holds no '.', or holds its last '.' at its start
rsplit_file_at_dot(path, fn) ==
    IF Slice(path, fn[1], fn[2]) = <<".", ".">> THEN 0
    ELSE IF Max({i \in fn[1]..fn[2] : path[i] = "."} \cup {0}) <= fn[1] THEN 0
    ELSE Max({i \in fn[1]..fn[2] : path[i] = "."})

\* PathBuf::set_extension: a path without a file name stays as it is; else
\* the path is cut after the stem of its file name and '.' and `ext` follow
set_extension(path, ext) ==
    LET fn == file_name(path, Len(path))
    IN  IF fn[1] = 0 THEN path
        ELSE Slice(path, 1, IF rsplit_file_at_dot(path, fn) = 0 THEN fn[2]
                            ELSE rsplit_file_at_dot(path, fn) - 1)
                \o (IF ext = <<>> THEN <<>> ELSE <<".">> \o ext)

\* Path::with_extension: the path shortened at its end by the length of its
\* extension, if it has one, and set_extension on what is left
with_extension(path, ext) ==
    LET fn == file_name(path, Len(path))
    IN  IF fn[1] = 0 \/ rsplit_file_at_dot(path, fn) = 0 THEN set_extension(path, ext)
        ELSE set_extension(
                 Slice(path, 1, Len(path) - (fn[2] - rsplit_file_at_dot(path, fn))), ext)

\* InterfaceConfig::get_path: config_dir.join(interface).with_extension("conf");
\* join puts an absolute name in place of the directory and else adds the
\* name, after a '/' unless the directory is empty or ends with one
get_path(config_dir, interface) ==
    with_extension(IF interface # <<>> /\ interface[1] = "/" THEN interface
                   ELSE IF config_dir = <<>> \/ config_dir[Len(config_dir)] = "/"
                   THEN config_dir \o interface
                   ELSE config_dir \o <<"/">> \o interface,
                   <<"c","o","n","f">>)

\* crate::ensure_dirs_exist(&[config_dir]): makes the directory if it is
\* missing; the call can fail
ensure_dirs_exist(dirsOk) == IF dirsOk THEN Ok("unit") ELSE Err("PermissionDenied")

\* InterfaceConfig::build_config_file_path
build_config_file_path(config_dir, interface, dirsOk) ==
    IF ~ensure_dirs_exist(dirsOk).ok THEN Err(ensure_dirs_exist(dirsOk).err)
    ELSE Ok(get_path(config_dir, interface))

\* File::create(path).with_path(path)?, write_all of the serialized record
\* and Ok(path): an existing file is emptied and keeps its mode, a missing
\* one is created; no header is written and no mode is applied. A path
\* without a file name ("etc/..") names a directory, which cannot be opened
\* for writing.
InterfaceCreated(path, opened, self, file, limit) ==
    IF ~path.ok THEN Outcome(Err(path.err), file, <<>>)
    ELSE IF path.val = <<>> THEN Outcome(Err("NotFound"), file, <<>>)
    ELSE IF file_name(path.val, Len(path.val))[1] = 0
    THEN Outcome(Err("IsADirectory"), file, <<>>)
    ELSE IF ~opened.ok THEN Outcome(Err(opened.err), file, <<>>)
    ELSE CHOOSE r \in
            {IF o.res.ok THEN Outcome(Ok(path.val), o.file, o.trace) ELSE o :
                o \in {WriteAll(Outcome(Ok("unit"), opened.val, <<Event("open", TRUE)>>),
                                TomlInterfaceConfig(self), limit)}} : TRUE

\* InterfaceConfig::write_to_interface
InterfaceConfig_write_to_interface(self, file, config_dir, interface, dirsOk, limit) ==
    InterfaceCreated(build_config_file_path(config_dir, interface, dirsOk),
                     OpenOptionsOpen(file, TRUE, TRUE, FALSE), self, file, limit)

\* the header, the two sentinel lines and the body
WriteExport(file, trace, nn, ie, body, limit) ==
    WriteAll(WriteAll(WriteAll(WriteAll(Outcome(Ok("unit"), file, trace),
                                        EXPORT_HEADER, limit),
                               nn, limit),
                      ie, limit),
             body, limit)

\* chmod(target_file, val)?  and then the content
ExportAfterChmod(moded, target_file, nn, ie, body, limit) ==
    IF ~moded.ok THEN Outcome(Err(moded.err), target_file, <<Event("chmod", FALSE)>>)
    ELSE WriteExport(moded.val, <<Event("chmod", TRUE)>>, nn, ie, body, limit)

\* an incomplete record turned away after the mode was applied
RejectAfterChmod(moded, target_file) ==
    IF ~moded.ok THEN Outcome(Err(moded.err), target_file, <<Event("chmod", FALSE)>>)
    ELSE Outcome(Err("InvalidInput"), moded.val, <<Event("chmod", TRUE)>>)

\* a write_to that sets the mode first and validates the record second
VanillaConfig_write_to_mode_first(self, target_file, mode, chmodOk, limit) ==
    IF ~self.peer.internal_endpoint.some \/ ~self.interface.network_name.some
    THEN IF mode.some
         THEN RejectAfterChmod(chmod(target_file, mode.val, chmodOk), target_file)
         ELSE Outcome(Err("InvalidInput"), target_file, <<>>)
    ELSE IF mode.some
    THEN ExportAfterChmod(chmod(target_file, mode.val, chmodOk), target_file,
                          NetworkNameLine(self.interface.network_name.val),
                          InternalEndpointLine(self.peer.internal_endpoint.val),
                          VanillaBody(self), limit)
    ELSE WriteExport(target_file, <<>>,
                     NetworkNameLine(self.interface.network_name.val),
                     InternalEndpointLine(self.peer.internal_endpoint.val),
                     VanillaBody(self), limit)

\* VanillaConfig::write_to on the handle target_file
VanillaConfig_write_to(self, target_file, mode, chmodOk, limit) ==
    IF ~self.peer.internal_endpoint.some \/ ~self.interface.network_name.some
    THEN Outcome(Err("InvalidInput"), target_file, <<>>)
    ELSE IF mode.some
    THEN ExportAfterChmod(chmod(target_file, mode.val, chmodOk), target_file,
                          NetworkNameLine(self.interface.network_name.val),
                          InternalEndpointLine(self.peer.internal_endpoint.val),
                          VanillaBody(self), limit)
    ELSE WriteExport(target_file, <<>>,
                     NetworkNameLine(self.interface.network_name.val),
                     InternalEndpointLine(self.peer.internal_endpoint.val),
                     VanillaBody(self), limit)

\* a write_to_path whose open creates the file but never truncates it
VanillaConfig_write_to_path_no_truncate(self, file, truncate, mode, chmodOk, limit) ==
    IF ~OpenOptionsOpen(file, truncate, FALSE, ~truncate).ok
    THEN Outcome(Err(OpenOptionsOpen(file, truncate, FALSE, ~truncate).err), file, <<>>)
    ELSE Opened(VanillaConfig_write_to(self, OpenOptionsOpen(file, truncate, FALSE, ~truncate).val,
                                       mode, chmodOk, limit))

\* VanillaConfig::write_to_path: the open with create + truncate, or with
\* create_new, and with_path(path)?, then write_to on the new handle
VanillaConfig_write_to_path(self, file, truncate, mode, chmodOk, limit) ==
    IF ~OpenOptionsOpen(file, truncate, truncate, ~truncate).ok
    THEN Outcome(Err(OpenOptionsOpen(file, truncate, truncate, ~truncate).err), file, <<>>)
    ELSE Opened(VanillaConfig_write_to(self,
                                       OpenOptionsOpen(file, truncate, truncate, ~truncate).val,
                                       mode, chmodOk, limit))

\* ------------------------------------------------------------------ sentinel comments
\* Where the capture starts if (?m)^#\s?!<key>, matches at i, else 0: '#' at
\* the start of a line, at most one whitespace character of any kind, then pat
CaptureStart(s, i, pat) ==
    IF ~((i = 1 \/ s[i - 1] = NL) /\ s[i] = "#") THEN 0
    ELSE IF i + 1 <= Len(s) /\ IsWhitespace(s[i + 1]) /\ StartsWithAt(s, i + 2, pat)
    THEN i + 2 + Len(pat)
    ELSE IF StartsWithAt(s, i + 1, pat) THEN i + 1 + Len(pat)
    ELSE 0

\* (?P<x>.*)$ from position `from`: up to the end of that line
CaptureFrom(s, from) ==
    Slice(s, from, Min({j \in from..Len(s) : s[j] = NL} \cup {Len(s) + 1}) - 1)

\* the capture of the leftmost match among the match positions `hits`
CaptureOf(s, pat, hits) ==
    IF hits = {} THEN None ELSE Some(CaptureFrom(s, CaptureStart(s, Min(hits), pat)))

\* Regex::captures for (?m)^#\s?!<key>,(?P<x>.*)$ : the named group of the
\* leftmost match, None when nothing matches
RegexCapture(s, key) ==
    CaptureOf(s, <<"!">> \o key \o <<",">>,
              {i \in 1..Len(s) : CaptureStart(s, i, <<"!">> \o key \o <<",">>) > 0})

\* the captured network name
NetworkNameOf(cap) == IF cap.some THEN Ok(cap.val) ELSE Err("Regex matches failed")

\* VanillaConfig::read_comment_network_name
read_comment_network_name(s) == NetworkNameOf(RegexCapture(s, <<"n","e","t","w","o","r","k","_","n","a","m","e">>))

\* .parse()? of the captured text
AddrOf(addr) == IF addr.some THEN Ok(addr.val) ELSE Err("AddrParseError")

\* the captured internal endpoint
InternalEndpointOf(cap) ==
    IF ~cap.some THEN Err("No internal endpoint found in comments")
    ELSE AddrOf(ParseSocketAddr(cap.val))

\* VanillaConfig::read_comment_internal_endpoint
read_comment_internal_endpoint(s) == InternalEndpointOf(RegexCapture(s, <<"i","n","t","e","r","n","a","l","_","e","n","d","p","o","i","n","t">>))

\* Result::ok
ResultOk(r) == IF r.ok THEN Some(r.val) ELSE None

\* ------------------------------------------------------------------ INI reader
\* s[from..to] as a line; one ended by "\n" loses the "\r" of a "\r\n" ending
LineAt(s, from, to, ended) ==
    Slice(s, from, IF ended /\ to >= from /\ s[to] = "\r" THEN to - 1 ELSE to)

\* the lines of s, cut at the positions `cuts` of its "\n" (rank as in RankIn);
\* what follows the last "\n" is a line unless it is empty, and no "\n" ends it
LinesAt(s, cuts, rank) ==
    [k \in 1..(IF Len(s) = 0 \/ s[Len(s)] = NL THEN Cardinality(cuts)
                ELSE Cardinality(cuts) + 1) |->
        LineAt(s, CutPos(cuts, rank, k - 1, Len(s) + 1) + 1,
                  CutPos(cuts, rank, k, Len(s) + 1) - 1,
                  k <= Cardinality(cuts))]

\* str::lines: the text split at its line endings "\n" and "\r\n"; a "\r" goes
\* only as part of "\r\n", so a last line that no "\n" ends keeps its "\r"
Lines(s) == LinesAt(s, Positions(s, NL), RankIn(Positions(s, NL)))

\* "key = value" split at the '=' at position eq, both sides trimmed
IniValue(line, eq) ==
    [kind |-> "value",
     key |-> Trim(Slice(line, 1, eq - 1)),
     value |-> Trim(Slice(line, eq + 1, Len(line)))]

\* serde_ini's line parser: a section header, a comment, an empty line,
\* "key = value" (split at the first '='), or a syntax error
IniItem(line) ==
    IF line # <<>> /\ line[1] = "["
    THEN IF line[Len(line)] = "]" /\ \A i \in 2..(Len(line) - 1) : line[i] # "]"
         THEN [kind |-> "section", name |-> Slice(line, 2, Len(line) - 1)]
         ELSE [kind |-> "error"]
    ELSE IF line # <<>> /\ line[1] \in {";", "#"} THEN [kind |-> "comment"]
    ELSE IF Positions(line, "=") # {} THEN IniValue(line, Min(Positions(line, "=")))
    ELSE IF line = <<>> THEN [kind |-> "empty"]
    ELSE [kind |-> "error"]

\* the section header that line i stands under, or 0
IniOwner(items, i) ==
    IF \E h \in 1..(i - 1) : items[h].kind = "section"
    THEN Max({h \in 1..(i - 1) : items[h].kind = "section"})
    ELSE 0

\* the lines that give one of `keys` (a name and its aliases) inside a section
\* called `section`
IniField(items, section, keys) ==
    {j \in 1..Len(items) :
        /\ items[j].kind = "value"
        /\ items[j].key \in keys
        /\ IniOwner(items, j) # 0
        /\ items[IniOwner(items, j)].name = section}

\* the fields of VanillaInterface and VanillaPeer as serde names them
IniFields ==
    << <<<<"I","n","t","e","r","f","a","c","e">>, {<<"A","d","d","r","e","s","s">>}>>,
       <<<<"I","n","t","e","r","f","a","c","e">>, {<<"P","r","i","v","a","t","e","K","e","y">>}>>,
       <<<<"I","n","t","e","r","f","a","c","e">>, {<<"L","i","s","t","e","n","P","o","r","t">>}>>,
       <<<<"P","e","e","r">>, {<<"P","u","b","l","i","c","K","e","y">>}>>,
       <<<<"P","e","e","r">>, {<<"E","n","d","p","o","i","n","t">>}>>,
       <<<<"P","e","e","r">>, {<<"A","l","l","o","w","e","d","I","p","s">>, <<"A","l","l","o","w","e","d","I","P","s">>}>>,
       <<<<"P","e","e","r">>, {<<"P","e","r","s","i","s","t","e","n","t","K","e","e","p","a","l","i","v","e">>}>> >>

\* the record of the seven field texts, the typed ones parsed
VanillaOfValues(address, private_key, listen_port, public_key, endpoint, allowed_ips, keepalive) ==
    IF ~(address.some /\ listen_port.some /\ endpoint.some /\ keepalive.some)
    THEN Err("value")
    ELSE Ok(VanillaConfig(
                VanillaInterface(address.val, private_key, listen_port.val, None),
                VanillaPeer(public_key, endpoint.val, allowed_ips, keepalive.val, None)))

\* each field is given on exactly one line (at[k]: the lines that give field k)
VanillaOfFields(items, at) ==
    IF \E k \in 1..Len(IniFields) : Cardinality(at[k]) # 1 THEN Err("field")
    ELSE VanillaOfValues(ParseIpNet(items[Min(at[1])].value),
                         items[Min(at[2])].value,
                         ParseU16(items[Min(at[3])].value),
                         items[Min(at[4])].value,
                         ParseEndpoint(items[Min(at[5])].value),
                         items[Min(at[6])].value,
                         ParseU16(items[Min(at[7])].value))

\* no syntax error, and each of the two sections exactly once
VanillaOfItems(items) ==
    IF \E k \in 1..Len(items) : items[k].kind = "error" THEN Err("syntax")
    ELSE IF \E sec \in {<<"I","n","t","e","r","f","a","c","e">>, <<"P","e","e","r">>} :
                Cardinality({i \in 1..Len(items) :
                                items[i].kind = "section" /\ items[i].name = sec}) # 1
    THEN Err("section")
    ELSE VanillaOfFields(items,
            [k \in 1..Len(IniFields) |-> IniField(items, IniFields[k][1], IniFields[k][2])])

\* the parsed lines of a text
IniItems(ls) == [k \in 1..Len(ls) |-> IniItem(ls[k])]

\* serde_ini::from_str::<VanillaConfig>: fails on a syntax error, on a section
\* or field given twice or not at all, and on a value that does not parse;
\* unknown keys are skipped; the serde(skip) fields come back as None
IniVanillaConfig(s) == VanillaOfItems(IniItems(Lines(s)))

\* the parsed body with the two sidecar fields read from the comments
WithSidecar(parsed, file_str) ==
    IF ~parsed.ok THEN Err(parsed.err)
    ELSE Ok([parsed.val EXCEPT
                !.interface.network_name = ResultOk(read_comment_network_name(file_str)),
                !.peer.internal_endpoint = ResultOk(read_comment_internal_endpoint(file_str))])

\* VanillaConfig::from_file on a path holding `file`
VanillaConfig_from_file(file) ==
    IF ~file.exists THEN Err("NotFound")
    ELSE WithSidecar(IniVanillaConfig(file.content), file.content)

\* ------------------------------------------------------------------ inputs
\* largest small listen port tried besides 51820, the usual WireGuard port
MaxListenPort == 1

\* "wg", and a name that carries a line break and a line of its own
NetworkNames == {<<"w","g">>, 
    <<"a","\n","#"," ","!","i","n","t","e","r","n","a","l","_","e","n","d","p","o","i","n",
      "t",",","9",".","9",".","9",".","9",":","1">>}

\* 10.1.2.1:5555, [fd00::1]:5555 and the link-local [fe80::1%5]:5555
InternalEndpoints ==
    {SockAddr(V4(10, 1, 2, 1), 5555, 0, U32(0, 0)),
     SockAddr(V6(<<64768, 0, 0, 0, 0, 0, 0, 1>>), 5555, 0, U32(0, 0)),
     SockAddr(V6(<<65152, 0, 0, 0, 0, 0, 0, 1>>), 5555, 0, U32(0, 5))}

\* a canonical record with the keys (shortened) and the external endpoint of
\* the tests
Canon(name, address, listen_port, internal_endpoint) ==
    InterfaceConfig(InterfaceInfo(name, address, <<"S","H","5","O","p","i","g","=">>, listen_port),
                    ServerInfo(<<"a","O","5","e","E","O","e","=">>, Endpoint(<<"1","6","5",".","1","2",".","3","2",".","3">>, 5555),
                               internal_endpoint))

\* the canonical records the conversions are tried on: 10.1.2.8 in a /24 or
\* a /16, no listen port, the usual 51820 or a small one
CanonSet ==
    {Canon(n, a, p, e) :
        n \in NetworkNames,
        a \in {IpNet(V4(10, 1, 2, 8), 24), IpNet(V4(10, 1, 2, 8), 16)},
        p \in {None, Some(51820)} \cup {Some(q) : q \in 0..MaxListenPort},
        e \in InternalEndpoints}

\* the canonical records the file operations are tried on
FileCanonSet ==
    {Canon(<<"w","g">>, IpNet(V4(10, 1, 2, 8), 24), None, e) :
        e \in {SockAddr(V4(10, 1, 2, 1), 5555, 0, U32(0, 0)),
               SockAddr(V6(<<65152, 0, 0, 0, 0, 0, 0, 1>>), 5555, 0, U32(0, 5))}}

\* interface names; with_extension takes ".0" for an extension and replaces it
Interfaces == {<<"p","e","e","r">>, <<"p","e","e","r",".","0">>}

\* the paths of the interface files in the directory "etc": etc/peer.conf
Paths == {get_path(<<"e","t","c">>, i) : i \in Interfaces}

\* files an outside editor leaves at the path: an export of v whose sentinel
\* lines were replaced by a lone '#' line and "!network_name,x=y" after the
\* body, and an export of v whose internal endpoint line holds no address
EditedFiles(v) ==
    { EXPORT_HEADER \o VanillaBody(v) \o <<"#","\n","!","n","e","t","w","o","r","k","_","n","a","m","e",",","x","=","y","\n">>,
      EXPORT_HEADER \o NetworkNameLine(<<"w","g">>) \o 
    <<"#"," ","!","i","n","t","e","r","n","a","l","_","e","n","d","p","o","i","n","t",",",
      "n","o","w","h","e","r","e","\n">>
          \o VanillaBody(v) }

\* a line is a sentinel line for `key`: '#', at most one blank, "!<key>,"
IsSentinelLine(line, key) ==
    /\ line # <<>>
    /\ line[1] = "#"
    /\ \/ StartsWithAt(line, 2, <<"!">> \o key \o <<",">>)
       \/ /\ Len(line) >= 2
          /\ IsWhitespace(line[2])
          /\ StartsWithAt(line, 3, <<"!">> \o key \o <<",">>)

\* where the line that starts at i ends (its line break, or the end of the text)
LineEnd(s, i) == Min({j \in i..Len(s) : s[j] = NL} \cup {Len(s)})

\* the text without the line that starts at the smallest of `hits`
DeleteLineAt(s, hits) ==
    IF hits = {} THEN s
    ELSE Slice(s, 1, Min(hits) - 1) \o Slice(s, LineEnd(s, Min(hits)) + 1, Len(s))

\* the text with its first sentinel line for `key` deleted (by hand, in an editor)
DeleteSentinelLine(s, key) ==
    DeleteLineAt(s, {i \in 1..Len(s) :
                        /\ (i = 1 \/ s[i - 1] = NL)
                        /\ IsSentinelLine(Slice(s, i, LineEnd(s, i)), key)})

\* ------------------------------------------------------------------ state
VARIABLES
    canon,      \* the InterfaceConfig the session holds
    vanilla,    \* the VanillaConfig the session holds, if any
    fs,         \* the file at each path
    last        \* the last call: its name, arguments, result and effects

vars == <<canon, vanilla, fs, last>>

\* what a call found at its path before it ran
Before(file) == [exists |-> file.exists, len |-> IF file.exists THEN Len(file.content) ELSE 0]

Call(op, arg, before, res, trace) ==
    [op |-> op, arg |-> arg, before |-> before, res |-> res, trace |-> trace]

\* the arguments of a call on path p and the size the file may grow to; a
\* reader gives p alone
WriteArg(p, truncate, comments, mode, limit) ==
    [path |-> p, truncate |-> truncate, comments |-> comments, mode |-> mode,
     limit |-> limit]

\* a call that touches no file
Plain(op, res) == Call(op, WriteArg(<<>>, FALSE, FALSE, None, None), Before(NoFile), res, <<>>)

\* an export of v as VanillaConfig::write_to_path leaves it, and the same
\* with one or both sentinel lines deleted by hand
ExportTexts(v) ==
    LET text == VanillaConfig_write_to_path(v, NoFile, TRUE, None, TRUE, None).file.content
    IN {text,
        DeleteSentinelLine(text, <<"n","e","t","w","o","r","k","_","n","a","m","e">>),
        DeleteSentinelLine(text, <<"i","n","t","e","r","n","a","l","_","e","n","d","p","o","i","n","t">>),
        DeleteSentinelLine(DeleteSentinelLine(text, <<"n","e","t","w","o","r","k","_","n","a","m","e">>), <<"i","n","t","e","r","n","a","l","_","e","n","d","p","o","i","n","t">>)}

InitConv ==
    /\ canon \in CanonSet
    /\ vanilla = None
    /\ fs \in [Paths -> {NoFile} \cup {File(t, None) : t \in ExportTexts(VanillaConfigFrom(canon))}]
    /\ last = Plain("new", Ok("unit"))

InitFile ==
    /\ canon \in FileCanonSet
    /\ vanilla = None
    /\ fs = [p \in Paths |-> NoFile]
    /\ last = Plain("new", Ok("unit"))

\* the writers start from the record with the IPv4 endpoint; the setters
\* bring in the other endpoints
InitWrite ==
    /\ canon = Canon(<<"w","g">>, IpNet(V4(10, 1, 2, 8), 24), None,
                     SockAddr(V4(10, 1, 2, 1), 5555, 0, U32(0, 0)))
    /\ vanilla = None
    /\ fs = [p \in Paths |-> NoFile]
    /\ last = Plain("new", Ok("unit"))

\* VanillaConfig::from(canon)
Export ==
    /\ vanilla' = Some(VanillaConfigFrom(canon))
    /\ last' = Plain("from", Ok("unit"))
    /\ UNCHANGED <<canon, fs>>

\* vanilla.set_network_name(n)
SetNetworkName ==
    /\ vanilla.some
    /\ \E n \in NetworkNames :
        vanilla' = Some(set_network_name(vanilla.val, n))
    /\ last' = Plain("set_network_name", Ok("unit"))
    /\ UNCHANGED <<canon, fs>>

\* vanilla.set_internal_endpoint(e)
SetInternalEndpoint ==
    /\ vanilla.some
    /\ \E e \in InternalEndpoints :
        vanilla' = Some(set_internal_endpoint(vanilla.val, e))
    /\ last' = Plain("set_internal_endpoint", Ok("unit"))
    /\ UNCHANGED <<canon, fs>>

\* vanilla.to_interface_config()
ToInterfaceConfig ==
    /\ vanilla.some
    /\ last' = Plain("to_interface_config", to_interface_config(vanilla.val))
    /\ UNCHANGED <<canon, vanilla, fs>>

\* the file a writer leaves at p once its handle is closed, and the record
\* of the call
Written(p, op, arg, w) ==
    /\ fs' = [fs EXCEPT ![p] = IF w.file.exists THEN File(w.file.content, w.file.mode)
                                ELSE NoFile]
    /\ last' = Call(op, arg, Before(fs[p]), w.res, w.trace)

\* canon.write_to_path(p, comments, mode), with no mode or with 0o600 (384);
\* chmodOk: whether the chmod goes through (tried when a mode is given);
\* limit: the size a file may grow to, none or 100 bytes (tried when the
\* call gets as far as writing)
InterfaceWriteToPath ==
    \E p \in Paths, comments \in BOOLEAN, mode \in {None, Some(384)} :
    \E chmodOk \in IF mode.some THEN BOOLEAN ELSE {TRUE} :
    \E limit \in IF chmodOk THEN {None, Some(100)} ELSE {None} :
        /\ \E w \in {InterfaceConfig_write_to_path(canon, fs[p], comments, mode, chmodOk,
                                                   limit)} :
            Written(p, "InterfaceConfig_write_to_path",
                    WriteArg(p, FALSE, comments, mode, limit), w)
        /\ UNCHANGED <<canon, vanilla>>

\* canon.write_to(file, comments, mode) on a handle the caller opened on the
\* file at p for writing, nothing truncated, the cursor at its start
InterfaceWriteTo ==
    \E p \in Paths, comments \in BOOLEAN, mode \in {None, Some(384)} :
    \E chmodOk \in IF mode.some THEN BOOLEAN ELSE {TRUE} :
    \E limit \in IF chmodOk THEN {None, Some(100)} ELSE {None} :
        /\ fs[p].exists
        /\ \E w \in {InterfaceConfig_write_to(canon, Handle(fs[p].content, fs[p].mode, 0),
                                              comments, mode, chmodOk, limit)} :
            Written(p, "InterfaceConfig_write_to",
                    WriteArg(p, FALSE, comments, mode, limit), w)
        /\ UNCHANGED <<canon, vanilla>>

\* vanilla.write_to_path(p, truncate, mode)
VanillaWriteToPath ==
    /\ vanilla.some
    /\ \E p \in Paths, truncate \in BOOLEAN, mode \in {None, Some(384)} :
       \E chmodOk \in IF mode.some THEN BOOLEAN ELSE {TRUE} :
       \E limit \in IF chmodOk THEN {None, Some(100)} ELSE {None} :
        /\ \E w \in {VanillaConfig_write_to_path(vanilla.val, fs[p], truncate, mode, chmodOk,
                                                 limit)} :
            Written(p, "VanillaConfig_write_to_path",
                    WriteArg(p, truncate, FALSE, mode, limit), w)
        /\ UNCHANGED <<canon, vanilla>>

\* vanilla.write_to(file, mode) on a handle the caller opened on the file at
\* p for writing, nothing truncated, the cursor at its start
VanillaWriteTo ==
    /\ vanilla.some
    /\ \E p \in Paths, mode \in {None, Some(384)} :
       \E chmodOk \in IF mode.some THEN BOOLEAN ELSE {TRUE} :
       \E limit \in IF chmodOk THEN {None, Some(100)} ELSE {None} :
        /\ fs[p].exists
        /\ \E w \in {VanillaConfig_write_to(vanilla.val, Handle(fs[p].content, fs[p].mode, 0),
                                            mode, chmodOk, limit)} :
            Written(p, "VanillaConfig_write_to", WriteArg(p, FALSE, FALSE, mode, limit), w)
        /\ UNCHANGED <<canon, vanilla>>

\* canon.write_to_interface("etc", interface); dirsOk: whether the directory
\* can be made sure of
InterfaceWriteToInterface ==
    \E interface \in Interfaces, dirsOk \in BOOLEAN :
    \E limit \in IF dirsOk THEN {None, Some(100)} ELSE {None} :
        \E p \in {get_path(<<"e","t","c">>, interface)} :
            /\ \E w \in {InterfaceConfig_write_to_interface(canon, fs[p], <<"e","t","c">>, interface,
                                                            dirsOk, limit)} :
                Written(p, "InterfaceConfig_write_to_interface",
                        WriteArg(p, TRUE, FALSE, None, limit), w)
            /\ UNCHANGED <<canon, vanilla>>

\* the value a read gives, kept on success, and the record of the call
Loaded(op, arg, before, r) ==
    /\ vanilla' = IF r.ok THEN Some(r.val) ELSE vanilla
    /\ last' = Call(op, arg, before, r, <<>>)

\* VanillaConfig::from_file(p); the session keeps the value on success
VanillaFromFile ==
    \E p \in Paths :
        /\ \E r \in {VanillaConfig_from_file(fs[p])} :
            Loaded("VanillaConfig_from_file", WriteArg(p, FALSE, FALSE, None, None), Before(fs[p]), r)
        /\ UNCHANGED <<canon, fs>>

\* somebody deletes a sentinel line of the file in an editor
EditDeleteSentinel ==
    \E p \in Paths, key \in {<<"n","e","t","w","o","r","k","_","n","a","m","e">>, <<"i","n","t","e","r","n","a","l","_","e","n","d","p","o","i","n","t">>} :
        /\ fs[p].exists
        /\ fs' = [fs EXCEPT ![p].content = DeleteSentinelLine(@, key)]
        /\ last' = Plain("edit", Ok("unit"))
        /\ UNCHANGED <<canon, vanilla>>

\* somebody replaces the exported file by an edited copy
EditReplace ==
    \E p \in Paths :
        /\ fs[p].exists
        /\ \E text \in EditedFiles(VanillaConfigFrom(canon)) :
            fs' = [fs EXCEPT ![p].content = text]
        /\ last' = Plain("edit", Ok("unit"))
        /\ UNCHANGED <<canon, vanilla>>

\* somebody removes the file
RemoveFile ==
    \E p \in Paths :
        /\ fs[p].exists
        /\ fs' = [fs EXCEPT ![p] = NoFile]
        /\ last' = Plain("remove", Ok("unit"))
        /\ UNCHANGED <<canon, vanilla>>

\* serde_ini::from_str on the configuration a plain WireGuard client holds
\* for this peer: the body alone, so both sidecar fields come back absent
Deserialize ==
    /\ \E body \in {VanillaBody(VanillaConfigFrom(canon))} :
       \E r \in {IniVanillaConfig(body)} :
        Loaded("serde_ini::from_str", WriteArg(<<>>, FALSE, FALSE, None, None), Before(NoFile), r)
    /\ UNCHANGED <<canon, fs>>

\* the conversions between the two records
NextConv ==
    \/ Export
    \/ VanillaFromFile
    \/ SetNetworkName
    \/ SetInternalEndpoint
    \/ ToInterfaceConfig

SpecConv == InitConv /\ [][NextConv]_vars

\* the writers of both file formats. InterfaceConfig::from_file and
\* from_interface only read a file, through toml::from_str, and change
\* neither a record nor a file; they have no action here.
NextWrite ==
    \/ Export
    \/ Deserialize
    \/ SetNetworkName
    \/ SetInternalEndpoint
    \/ InterfaceWriteToPath
    \/ InterfaceWriteToInterface
    \/ VanillaWriteToPath
    \/ RemoveFile

SpecWrite == InitWrite /\ [][NextWrite]_vars

\* both write_to functions called on a handle of the caller's, next to the
\* write_to_path functions that call them on a handle of their own
NextHandle ==
    \/ Export
    \/ Deserialize
    \/ InterfaceWriteToPath
    \/ InterfaceWriteTo
    \/ VanillaWriteToPath
    \/ VanillaWriteTo
    \/ RemoveFile

SpecHandle == InitFile /\ [][NextHandle]_vars

\* exporting, editing and reading back a vanilla file
NextRead ==
    \/ Export
    \/ SetNetworkName
    \/ VanillaWriteToPath
    \/ EditDeleteSentinel
    \/ EditReplace
    \/ VanillaFromFile

SpecRead == InitFile /\ [][NextRead]_vars

\* every operation together
Next == NextConv \/ NextWrite \/ NextHandle \/ NextRead

Spec == InitFile /\ [][Next]_vars


\* ------------------------------------------------------------------ properties
\* a VanillaConfig is Complete when both sidecar fields are present
IsComplete(v) == v.interface.network_name.some /\ v.peer.internal_endpoint.some

IsInterfaceWrite(call) == call.op = "InterfaceConfig_write_to_path"

IsVanillaWrite(call) == call.op = "VanillaConfig_write_to_path"

\* a write_to called on a handle of the caller's
IsHandleWrite(call) == call.op \in {"InterfaceConfig_write_to", "VanillaConfig_write_to"}

IsFromFile(call) == call.op = "VanillaConfig_from_file"

\* the kinds of the effects of a call, in order
Kinds(trace) == [i \in DOMAIN trace |-> trace[i].kind]

HasWrite(trace) == \E i \in DOMAIN trace : trace[i].kind = "write"

HasChmod(trace) == \E i \in DOMAIN trace : trace[i].kind = "chmod"

ChmodFailed(trace) == \E i \in DOMAIN trace : trace[i].kind = "chmod" /\ ~trace[i].arg

\* every byte a call wrote, in order
WrittenBytes(trace) ==
    Concat([i \in DOMAIN trace |-> IF trace[i].kind = "write" THEN trace[i].arg ELSE <<>>])

\* C1: for every canonical record R, VanillaConfig::from(R) converted back with
\* to_interface_config succeeds and equals R in network_name, address,
\* private_key, public_key, external_endpoint and internal_endpoint; a
\* listen_port of None goes through 0 back to None and Some(p > 0) goes
\* through p back to Some(p).
C1_RoundTrip ==
    (last.op = "to_interface_config" /\ vanilla = Some(VanillaConfigFrom(canon))) =>
        /\ last.res.ok
        /\ last.res.val.interface.network_name = canon.interface.network_name
        /\ last.res.val.interface.address = canon.interface.address
        /\ last.res.val.interface.private_key = canon.interface.private_key
        /\ last.res.val.server.public_key = canon.server.public_key
        /\ last.res.val.server.external_endpoint = canon.server.external_endpoint
        /\ last.res.val.server.internal_endpoint = canon.server.internal_endpoint
        /\ (~canon.interface.listen_port.some =>
                /\ vanilla.val.interface.listen_port = 0
                /\ last.res.val.interface.listen_port = None)
        /\ ((canon.interface.listen_port.some /\ canon.interface.listen_port.val > 0) =>
                /\ vanilla.val.interface.listen_port = canon.interface.listen_port.val
                /\ last.res.val.interface.listen_port = canon.interface.listen_port)

\* a record without listen_port went to a vanilla record with port 0 and came back
C1_Witness ==
    /\ last.op = "to_interface_config"
    /\ vanilla = Some(VanillaConfigFrom(canon))
    /\ ~canon.interface.listen_port.some
    /\ vanilla.val.interface.listen_port = 0
    /\ last.res.ok

\* C2: to_interface_config fails whenever network_name or internal_endpoint is
\* absent and succeeds whenever both are present, whatever setter calls or
\* from_file read produced the value.
C2_CompletenessGate ==
    last.op = "to_interface_config" =>
        (last.res.ok <=>
            (vanilla.val.interface.network_name.some /\ vanilla.val.peer.internal_endpoint.some))

\* a conversion refused although network_name is there: internal_endpoint is not
C2_Witness ==
    /\ last.op = "to_interface_config"
    /\ ~last.res.ok
    /\ vanilla.val.interface.network_name.some
    /\ ~vanilla.val.peer.internal_endpoint.some

\* C3: InterfaceConfig::write_to_path, and VanillaConfig::write_to_path with
\* truncate = false, on a path that holds a file fails with AlreadyExists and
\* leaves the file as it was.
C3_ExclusiveCreate ==
    [][\A p \in Paths :
        (/\ fs[p].exists
         /\ last'.arg.path = p
         /\ (IsInterfaceWrite(last') \/ (IsVanillaWrite(last') /\ ~last'.arg.truncate)))
        => (/\ ~last'.res.ok
            /\ last'.res.err = "AlreadyExists"
            /\ fs' = fs)]_vars

\* a second invitation write refused on a path that holds written content
C3_Witness ==
    /\ IsInterfaceWrite(last)
    /\ ~last.res.ok
    /\ last.res.err = "AlreadyExists"
    /\ last.before.len > 0
    /\ Len(fs[last.arg.path].content) = last.before.len

\* C4: writing an Incomplete VanillaConfig fails, with no byte written to the
\* target file and no permission mode applied to it.
C4_IncompleteWriteFails ==
    (IsVanillaWrite(last) /\ ~IsComplete(vanilla.val)) =>
        /\ ~last.res.ok
        /\ ~HasWrite(last.trace)
        /\ ~HasChmod(last.trace)
        /\ (last.trace # <<>> =>
                /\ last.res.err = "InvalidInput"
                /\ fs[last.arg.path].content = <<>>
                /\ (~last.before.exists => fs[last.arg.path].mode = None))

\* an Incomplete record refused by a write that asked for a mode
C4_Witness ==
    /\ IsVanillaWrite(last)
    /\ ~IsComplete(vanilla.val)
    /\ last.arg.mode.some
    /\ ~last.res.ok
    /\ last.res.err = "InvalidInput"

\* C5: when mode is Some(m), both writers apply the mode before the first
\* content byte, and a failure to apply it is returned with no byte written:
\* the file a write_to_path opened stays empty, the file behind a caller's
\* handle keeps its length.
C5_ModeBeforeContent ==
    ((IsInterfaceWrite(last) \/ IsVanillaWrite(last) \/ IsHandleWrite(last))
        /\ last.arg.mode.some) =>
        /\ \A i \in DOMAIN last.trace :
                last.trace[i].kind = "write" =>
                    \E j \in 1..(i - 1) :
                        last.trace[j].kind = "chmod" /\ last.trace[j].arg
        /\ (ChmodFailed(last.trace) =>
                /\ ~last.res.ok
                /\ last.res.err = "PermissionDenied"
                /\ ~HasWrite(last.trace)
                /\ (~IsHandleWrite(last) => fs[last.arg.path].content = <<>>)
                /\ (IsHandleWrite(last) =>
                        Len(fs[last.arg.path].content) = last.before.len))
        /\ (last.res.ok => fs[last.arg.path].mode = last.arg.mode)

\* an invitation written with its header under a mode: open, chmod, then the writes
C5_Witness ==
    /\ IsInterfaceWrite(last)
    /\ last.arg.mode.some
    /\ last.arg.comments
    /\ last.res.ok
    /\ Kinds(last.trace) = <<"open", "chmod", "write", "write">>

\* C6: the derived allowed_ips is the IP address of internal_endpoint with the
\* full-length mask of its family: /32 for IPv4, /128 for IPv6.
C6_AllowedIpsFullLength ==
    last.op = "from" =>
        vanilla.val.peer.allowed_ips =
            FmtIp(canon.server.internal_endpoint.ip) \o <<"/">>
                \o FmtDec(IF canon.server.internal_endpoint.ip.v = 4 THEN V4Bits ELSE V6Bits)

\* C7: a Complete VanillaConfig written with write_to_path and read back with
\* from_file comes back with network_name and internal_endpoint present and
\* equal to the ones written.
C7_SentinelRoundTrip ==
    [][(/\ IsVanillaWrite(last)
        /\ last.res.ok
        /\ IsFromFile(last')
        /\ last'.arg.path = last.arg.path)
       => (/\ last'.res.ok
           /\ last'.res.val.interface.network_name = vanilla.val.interface.network_name
           /\ last'.res.val.peer.internal_endpoint = vanilla.val.peer.internal_endpoint)]_vars

\* C8 as stated: write_to_path with truncate = true on a Complete record
\* succeeds whether or not the path holds a file, and the file then holds
\* exactly what this call wrote: header, the two sentinel lines and the body.
C8_TruncatingWrite ==
    (/\ IsVanillaWrite(last)
     /\ last.arg.truncate
     /\ IsComplete(vanilla.val)) =>
        /\ last.res.ok
        /\ fs[last.arg.path].exists
        /\ fs[last.arg.path].content = WrittenBytes(last.trace)
        /\ fs[last.arg.path].content =
               EXPORT_HEADER
               \o NetworkNameLine(vanilla.val.interface.network_name.val)
               \o InternalEndpointLine(vanilla.val.peer.internal_endpoint.val)
               \o VanillaBody(vanilla.val)

\* C8 amended: write_to_path with truncate = true on a Complete record leaves
\* a file at the path that holds exactly what this call wrote, whether or not
\* the path held a file before. The call succeeds unless applying the mode
\* or a write fails: on success the file is header, the two sentinel lines
\* and the body; on a failed chmod the call returns that error and the file
\* is left empty; on a write that the file size limit cuts short the call
\* returns that error and the file is left with the bytes that fitted. In
\* both failures the content of an earlier export is gone.
C8_TruncatingWriteUnlessChmodOrWriteFails ==
    (/\ IsVanillaWrite(last)
     /\ last.arg.truncate
     /\ IsComplete(vanilla.val)) =>
        \E full \in {EXPORT_HEADER
                     \o NetworkNameLine(vanilla.val.interface.network_name.val)
                     \o InternalEndpointLine(vanilla.val.peer.internal_endpoint.val)
                     \o VanillaBody(vanilla.val)} :
            /\ fs[last.arg.path].exists
            /\ fs[last.arg.path].content = WrittenBytes(last.trace)
            /\ (last.res.ok <=>
                    /\ ~ChmodFailed(last.trace)
                    /\ (last.arg.limit.some => Len(full) <= last.arg.limit.val))
            /\ (last.res.ok => fs[last.arg.path].content = full)
            /\ (~last.res.ok =>
                    \/ /\ last.res.err = "PermissionDenied"
                       /\ last.arg.mode.some
                       /\ fs[last.arg.path].content = <<>>
                    \/ /\ last.res.err = "FileTooLarge"
                       /\ last.arg.limit.some
                       /\ fs[last.arg.path].content = Slice(full, 1, last.arg.limit.val))

\* a second export over a longer first one: the file is now the shorter text
C8_Witness ==
    /\ IsVanillaWrite(last)
    /\ last.arg.truncate
    /\ last.res.ok
    /\ last.before.exists
    /\ last.before.len > Len(fs[last.arg.path].content)

\* the lines of a text that are sentinel lines for `key`
SentinelHits(lines, key) == {k \in DOMAIN lines : IsSentinelLine(lines[k], key)}

\* what follows "!<key>," on a sentinel line
SentinelText(line, pat) ==
    Slice(line, (IF StartsWithAt(line, 2, pat) THEN 2 ELSE 3) + Len(pat), Len(line))

\* the first sentinel line among `hits` carries no socket address
InvalidAddrAt(lines, hits) ==
    /\ hits # {}
    /\ ~ParseSocketAddr(SentinelText(lines[Min(hits)], <<"!","i","n","t","e","r","n","a","l","_","e","n","d","p","o","i","n","t",",">>)).some

NoSentinelLine(s, key) == SentinelHits(SplitOn(s, NL), key) = {}

InvalidSentinelAddr(s) ==
    InvalidAddrAt(SplitOn(s, NL), SentinelHits(SplitOn(s, NL), <<"i","n","t","e","r","n","a","l","_","e","n","d","p","o","i","n","t">>))

\* C9: when the body parses, from_file succeeds whatever the sentinels are:
\* network_name is None when no line matches its pattern, internal_endpoint
\* is None when no line matches its pattern or the captured text is no socket
\* address, and deleting the sentinel line of one key leaves the value read
\* for the other key as it was.
C9_SentinelsOptional ==
    (/\ IsFromFile(last)
     /\ fs[last.arg.path].exists
     /\ IniVanillaConfig(fs[last.arg.path].content).ok) =>
        /\ last.res.ok
        /\ (NoSentinelLine(fs[last.arg.path].content, <<"n","e","t","w","o","r","k","_","n","a","m","e">>)
                => last.res.val.interface.network_name = None)
        /\ ((\/ NoSentinelLine(fs[last.arg.path].content, <<"i","n","t","e","r","n","a","l","_","e","n","d","p","o","i","n","t">>)
             \/ InvalidSentinelAddr(fs[last.arg.path].content))
                => last.res.val.peer.internal_endpoint = None)
        /\ read_comment_network_name(
               DeleteSentinelLine(fs[last.arg.path].content, <<"i","n","t","e","r","n","a","l","_","e","n","d","p","o","i","n","t">>))
             = read_comment_network_name(fs[last.arg.path].content)
        /\ read_comment_internal_endpoint(
               DeleteSentinelLine(fs[last.arg.path].content, <<"n","e","t","w","o","r","k","_","n","a","m","e">>))
             = read_comment_internal_endpoint(fs[last.arg.path].content)

\* C10: a write_to_path that fails because the record is Incomplete leaves
\* every path as it was: no file created, no existing content lost.
C10_FailedWriteKeepsFiles ==
    [][(/\ IsVanillaWrite(last')
        /\ ~last'.res.ok
        /\ last'.res.err = "InvalidInput")
       => fs' = fs]_vars
====
